---- MODULE Spec2Model ----
(***************************************************************************)
(* KomootGPX: the tour-to-GPX conversion (komootgpx/gpxcompiler.py) and    *)
(* the paginated tour listing (komootgpx/api.py, KomootApi.fetch_tours).   *)
(*                                                                         *)
(* Conventions of the model                                                *)
(*   - a Python dict is a function whose DOMAIN is its key set;            *)
(*   - a Python attribute that is either None or a value is a sequence of  *)
(*     length 0 or 1;                                                      *)
(*   - a Python str is a sequence of one-character strings; the literal    *)
(*     fragments of the description f-string are kept as single tokens;    *)
(*   - a raised exception ends the call: pc = "raised", error = its type;  *)
(*   - datetimes are microseconds since the epoch plus the flag `aware`    *)
(*     (tz-aware, as strptime with %z gives, or naive, as fromtimestamp    *)
(*     gives).  Raw times are small so that they fit TLC's integers; the   *)
(*     arithmetic of the code is the same at any magnitude short of        *)
(*     datetime's own range.                                               *)
(***************************************************************************)
EXTENDS Integers, Sequences, FiniteSets, TLC

VARIABLES
    tour,            \* GpxCompiler: the tour payload handed to __init__
    pc,              \* GpxCompiler: "start" | "constructed" | "done" | "raised"
    route,           \* GpxCompiler.route: sequence of Point
    error,           \* type of the exception that ended the conversion, or "none"
    gpx,             \* <<>>, or <<document>> once generate() has returned it
    server,          \* fetch_tours: the pages the tours endpoint serves
    tour_user_id,    \* fetch_tours: its tour_user_id argument ("" is None)
    queryfilter,     \* fetch_tours: kind of its queryfilter argument
    params,          \* fetch_tours: the query parameters of its requests
    login_user,      \* KomootApi.user_id
    fpc,             \* fetch_tours: "call" | "loop" | "returned" | "raised"
    current_uri,     \* fetch_tours: index of the page the next request asks for
    has_next_page,   \* fetch_tours: loop condition
    results,         \* fetch_tours: dict tour id -> TourDetails
    status_code,     \* status of the last response (0 before any request)
    ferror,          \* type of the exception that ended fetch_tours, or "none"
    argv,            \* main: the options of the command line, <<option, argument>> each
    credentials,     \* main: whether mail and password are those of an account
    mpc,             \* main: "start" | "login" | "logged_in" | "fetch_tours"
                     \*       | "exited" | "crashed"
    typeFilter,      \* main: typeFilter
    tour_selection,  \* main: tour_selection
    print_tours,     \* main: print_tours
    user_id,         \* main: user_id ("" is None)
    exit_code,       \* status the process ended with (-1 while it runs)
    merror,          \* type of the exception main ended with, or "none"
    log,             \* the calls main has made to the API, in order
    written          \* ids of the tours whose GPX file was written, in order

compilerVars == <<tour, pc, route, error, gpx>>

fetchVars == <<server, tour_user_id, queryfilter, params, login_user, fpc,
               current_uri, has_next_page, results, status_code, ferror>>

mainVars == <<argv, credentials, mpc, typeFilter, tour_selection, print_tours,
              user_id, exit_code, merror, log, written>>

vars == <<tour, pc, route, error, gpx, server, tour_user_id, queryfilter, params,
          login_user, fpc, current_uri, has_next_page, results, status_code, ferror,
          argv, credentials, mpc, typeFilter, tour_selection, print_tours,
          user_id, exit_code, merror, log, written>>

----------------------------------------------------------------------------
(* Bounds of the model *)

\* longest coordinate list of a payload
MaxLen == 2

\* longest chain of pages the tours endpoint serves
MaxPages == 3

\* most options on a command line
MaxArgs == 2

----------------------------------------------------------------------------
(* Point (gpxcompiler.py) *)

CONST_UNDEFINED == -9999

\* a dict with no key
EmptyDict == [k \in {} |-> 0]

\* lat / lng of the raw records: both keys (ordinary values, or the value of
\* CONST_UNDEFINED under lat alone or under both), one key alone, or neither
PositionParts ==
    {("lat" :> 48) @@ ("lng" :> 11),
     ("lat" :> CONST_UNDEFINED) @@ ("lng" :> 11),
     ("lat" :> CONST_UNDEFINED) @@ ("lng" :> CONST_UNDEFINED),
     "lat" :> 48,
     "lng" :> 11,
     EmptyDict}

HasPosition(json) == "lat" \in DOMAIN json /\ "lng" \in DOMAIN json

\* alt of a raw record: no key, an ordinary altitude, the value of CONST_UNDEFINED
AltParts == {EmptyDict, "alt" :> 520, "alt" :> CONST_UNDEFINED}

\* t of a raw record, in ms: no key, 0, 5000, the value of CONST_UNDEFINED
TimeParts == {EmptyDict, "t" :> 0, "t" :> 5000, "t" :> CONST_UNDEFINED}

\* raw coordinate records; a record without both of lat and lng is never read
\* further, so it carries only the ordinary alt and t (or none)
RawCoords ==
    {p @@ a @@ t : p \in {q \in PositionParts : HasPosition(q)},
                   a \in AltParts, t \in TimeParts}
    \cup
    {p @@ a @@ t : p \in {q \in PositionParts : ~HasPosition(q)},
                   a \in {EmptyDict, "alt" :> 520}, t \in {EmptyDict, "t" :> 0}}

\* Point.__init__ raises KeyError exactly when one of lat / lng is there and
\* the other is not: the early return needs both to be missing
PointRaises(json) ==
    ~("lat" \notin DOMAIN json /\ "lng" \notin DOMAIN json)
    /\ ("lat" \notin DOMAIN json \/ "lng" \notin DOMAIN json)

UndefinedPoint ==
    [lat |-> CONST_UNDEFINED, lng |-> CONST_UNDEFINED,
     time |-> CONST_UNDEFINED, alt |-> CONST_UNDEFINED]

\* Point.__init__ on a record it does not raise on
Point(json) ==
    IF "lat" \notin DOMAIN json /\ "lng" \notin DOMAIN json
    THEN UndefinedPoint
    ELSE [lat  |-> json["lat"],
          lng  |-> json["lng"],
          alt  |-> IF "alt" \in DOMAIN json THEN json["alt"] ELSE CONST_UNDEFINED,
          time |-> IF "t" \in DOMAIN json THEN json["t"] ELSE CONST_UNDEFINED]

is_empty(p) == p.lat = CONST_UNDEFINED /\ p.lng = CONST_UNDEFINED

has_only_coords(p) == p.alt = CONST_UNDEFINED /\ p.time = CONST_UNDEFINED

----------------------------------------------------------------------------
(* Text: str(), the f-string of the description, timedelta.__str__ *)

DigitChars == <<"0", "1", "2", "3", "4", "5", "6", "7", "8", "9">>

Digit(d) == DigitChars[d + 1]

RECURSIVE NatStr(_)
NatStr(n) == IF n < 10 THEN <<Digit(n)>> ELSE NatStr(n \div 10) \o <<Digit(n % 10)>>

\* str(n) of an int
IntStr(n) == IF n < 0 THEN <<"-">> \o NatStr(-n) ELSE NatStr(n)

\* two digits, zero padded ("%02d")
TwoDigits(n) == <<Digit(n \div 10), Digit(n % 10)>>

\* the digits str() shows after the point of m / 1000.0, 0 <= m < 1000: the
\* shortest ones that give the float back, so trailing zeros go, one digit stays
FractionStr(m) ==
    IF m % 100 = 0 THEN <<Digit(m \div 100)>>
    ELSE IF m % 10 = 0 THEN <<Digit(m \div 100), Digit((m \div 10) % 10)>>
    ELSE <<Digit(m \div 100), Digit((m \div 10) % 10), Digit(m % 10)>>

\* str(int(distance) / 1000.0), distance >= 0
KmStr(distance) ==
    NatStr(distance \div 1000) \o <<".">> \o FractionStr(distance % 1000)

\* str(timedelta(seconds=s)), s >= 0 an int: "[D day[s], ]H:MM:SS"
TimedeltaStr(s) ==
    LET days == s \div 86400
        rest == s % 86400
        hh   == rest \div 3600
        mm   == (rest % 3600) \div 60
        ss   == rest % 60
        head == IF days = 0 THEN <<>>
                ELSE IF days = 1 THEN NatStr(days) \o <<" day, ">>
                ELSE NatStr(days) \o <<" days, ">>
    IN  head \o NatStr(hh) \o <<":">> \o TwoDigits(mm) \o <<":">> \o TwoDigits(ss)

\* the literal " (Completed)"
CompletedSuffix == <<" ", "(", "C", "o", "m", "p", "l", "e", "t", "e", "d", ")">>

EndsWith(s, suffix) ==
    /\ Len(s) >= Len(suffix)
    /\ SubSeq(s, Len(s) - Len(suffix) + 1, Len(s)) = suffix

----------------------------------------------------------------------------
(* The date field: datetime.strptime(date, "%Y-%m-%dT%H:%M:%S.%f%z") *)

Dates == {"1970-01-01T00:00:10.000000+00:00",
          "1970-01-01T00:01:00.000000+00:00",
          "1970-01-01"}

\* strptime raises ValueError on a string that does not match the format
DateParses(date) == date \in {"1970-01-01T00:00:10.000000+00:00",
                              "1970-01-01T00:01:00.000000+00:00"}

\* the parsed start date, in microseconds since the epoch
StartDate(date) ==
    CASE date = "1970-01-01T00:00:10.000000+00:00" -> 10 * 1000000
      [] date = "1970-01-01T00:01:00.000000+00:00" -> 60 * 1000000

\* timedelta(seconds=ms / 1000) and the seconds fromtimestamp(ms / 1000)
\* takes, in microseconds
MsToMicros(ms) == ms * 1000

----------------------------------------------------------------------------
(* Tour payloads *)

Names == {<<"A">>, <<"A">> \o CompletedSuffix, <<>>}

Types == {"tour_recorded", "tour_planned"}

Distances == {0, 950, 15000, 15400, 15430, 15432}

Durations == {59, 3661, 86400, 180122}

Grades == {<<>>, <<"moderate">>}

RECURSIVE SeqsUpTo(_, _)
SeqsUpTo(S, n) ==
    IF n = 0 THEN {<<>>}
    ELSE LET shorter == SeqsUpTo(S, n - 1)
         IN  shorter \cup {Append(s, x) : s \in {q \in shorter : Len(q) = n - 1}, x \in S}

Payload(name, type, distance, duration, grade, date, items) ==
    [name |-> name, type |-> type, distance |-> distance, duration |-> duration,
     elevation_up |-> 120, elevation_down |-> 80, difficulty |-> grade,
     date |-> date, items |-> items]

\* coordinate lists of at most MaxLen records
Routes == UNION {[1..n -> RawCoords] : n \in 0..MaxLen}

\* metadata of the payloads that vary the route
PlainTour(date, items) ==
    Payload(<<"A">>, "tour_planned", 15000, 3661, <<>>, date, items)

\* route of the payloads that vary the metadata
PlainRoute == <<[lat |-> 48, lng |-> 11, alt |-> 520, t |-> 0]>>

----------------------------------------------------------------------------
(* GpxCompiler.__init__ *)

\* index of the first record Point.__init__ raises on, 0 when there is none
FirstRaising(items) ==
    IF \E i \in 1..Len(items) : PointRaises(items[i])
    THEN CHOOSE i \in 1..Len(items) :
            /\ PointRaises(items[i])
            /\ \A j \in 1..(i - 1) : ~PointRaises(items[j])
    ELSE 0

\* self.route after the loop over coordinates.items: one Point per record, in
\* order, up to the record that raises
BuildRoute(items) ==
    LET k == FirstRaising(items)
        n == IF k = 0 THEN Len(items) ELSE k - 1
    IN  [i \in 1..n |-> Point(items[i])]

----------------------------------------------------------------------------
(* GpxCompiler.generate *)

\* DocName with the type test lost: the suffix is always appended
DocNameAlwaysCompleted(t) == t.name \o CompletedSuffix

\* gpx.name
DocName(t) ==
    IF t.type = "tour_recorded" THEN t.name \o CompletedSuffix ELSE t.name

\* gpx.description
Description(t) ==
    <<"Distance: ">> \o KmStr(t.distance) \o <<"km, ">>
    \o <<"Estimated duration: ">> \o TimedeltaStr(t.duration) \o <<"hrs, ">>
    \o <<"Elevation up: ">> \o IntStr(t.elevation_up) \o <<"m, ">>
    \o <<"Elevation down: ">> \o IntStr(t.elevation_down) \o <<"m">>
    \o (IF t.difficulty # <<>> THEN <<", Grade: ">> \o t.difficulty ELSE <<>>)

\* augment_timestamp, decided once from the first point of the route
AugmentTimestamp(r) == r[1].time = 0

\* PointTime with the mode decided again at every point, from that point's time
PointTimePerPoint(coord, augment_timestamp, start_date) ==
    IF coord.time # CONST_UNDEFINED
    THEN IF coord.time = 0 \/ (augment_timestamp /\ coord.time < 1000)
         THEN <<[us |-> start_date + MsToMicros(coord.time), aware |-> TRUE]>>
         ELSE <<[us |-> MsToMicros(coord.time), aware |-> FALSE]>>
    ELSE <<>>

\* PointTime with the start date added in both modes
PointTimeAlwaysRelative(coord, augment_timestamp, start_date) ==
    IF coord.time # CONST_UNDEFINED
    THEN <<[us |-> start_date + MsToMicros(coord.time), aware |-> augment_timestamp]>>
    ELSE <<>>

\* point.time of one track point: None when the Point has no time
PointTime(coord, augment_timestamp, start_date) ==
    IF coord.time # CONST_UNDEFINED
    THEN IF augment_timestamp
         THEN <<[us |-> start_date + MsToMicros(coord.time), aware |-> TRUE]>>
         ELSE <<[us |-> MsToMicros(coord.time), aware |-> FALSE]>>
    ELSE <<>>

\* point.elevation of one track point: None when the Point has no altitude
PointElevation(coord) ==
    IF coord.alt # CONST_UNDEFINED THEN <<coord.alt>> ELSE <<>>

TrackPoint(coord, augment_timestamp, start_date) ==
    [latitude  |-> coord.lat,
     longitude |-> coord.lng,
     elevation |-> PointElevation(coord),
     time      |-> PointTime(coord, augment_timestamp, start_date)]

\* SegmentPoints with the empty Points of the route left out
SegmentPointsSkippingEmpty(r, augment_timestamp, start_date) ==
    LET kept == SelectSeq(r, LAMBDA p : ~is_empty(p))
    IN  [i \in 1..Len(kept) |-> TrackPoint(kept[i], augment_timestamp, start_date)]

\* segment.points after the loop over self.route
SegmentPoints(r, augment_timestamp, start_date) ==
    [i \in 1..Len(r) |-> TrackPoint(r[i], augment_timestamp, start_date)]

\* the document generate() serializes
Document(t, r) ==
    LET name        == DocName(t)
        description == Description(t)
        segment     == [points |-> SegmentPoints(r, AugmentTimestamp(r),
                                                 StartDate(t.date))]
        track       == [name |-> name, description |-> description,
                        segments |-> <<segment>>]
    IN  [name |-> name, description |-> description, tracks |-> <<track>>]

\* how generate() ends on payload t and route r: route[0] is read before the
\* date is parsed, and both before any point is emitted
GenerateResult(t, r) ==
    IF Len(r) = 0
    THEN [pc |-> "raised", error |-> "IndexError", gpx |-> <<>>]
    ELSE IF ~DateParses(t.date)
    THEN [pc |-> "raised", error |-> "ValueError", gpx |-> <<>>]
    ELSE [pc |-> "done", error |-> "none", gpx |-> <<Document(t, r)>>]

----------------------------------------------------------------------------
(* The conversion of one tour: GpxCompiler(tour).generate() *)

\* main() is not running
MainIdle ==
    /\ argv = <<>>
    /\ credentials = "valid"
    /\ mpc = "idle"
    /\ typeFilter = "all"
    /\ tour_selection = ""
    /\ print_tours = FALSE
    /\ user_id = ""
    /\ exit_code = -1
    /\ merror = "none"
    /\ log = <<>>
    /\ written = <<>>

FetchIdle ==
    /\ server = <<>>
    /\ tour_user_id = ""
    /\ queryfilter = "None"
    /\ params = EmptyDict
    /\ login_user = ""
    /\ fpc = "idle"
    /\ current_uri = 0
    /\ has_next_page = FALSE
    /\ results = <<>>
    /\ status_code = 0
    /\ ferror = "none"

Init ==
    /\ \/ \E date \in Dates, items \in Routes : tour = PlainTour(date, items)
       \/ \E name \in Names, type \in Types, distance \in Distances,
             duration \in Durations, grade \in Grades :
             tour = Payload(name, type, distance, duration, grade,
                            "1970-01-01T00:00:10.000000+00:00", PlainRoute)
    /\ pc = "start"
    /\ route = <<>>
    /\ error = "none"
    /\ gpx = <<>>
    /\ FetchIdle
    /\ MainIdle

\* GpxCompiler(tour)
Construct ==
    /\ pc = "start"
    /\ route' = BuildRoute(tour.items)
    /\ IF FirstRaising(tour.items) = 0
       THEN pc' = "constructed" /\ error' = "none"
       ELSE pc' = "raised" /\ error' = "KeyError"
    /\ UNCHANGED <<tour, gpx>>
    /\ UNCHANGED fetchVars
    /\ UNCHANGED mainVars

\* compiler.generate()
Generate ==
    /\ pc = "constructed"
    /\ LET res == GenerateResult(tour, route)
       IN  /\ pc' = res.pc
           /\ error' = res.error
           /\ gpx' = res.gpx
    /\ UNCHANGED <<tour, route>>
    /\ UNCHANGED fetchVars
    /\ UNCHANGED mainVars

Next == Construct \/ Generate

Spec == Init /\ [][Next]_vars

----------------------------------------------------------------------------
(* Claims about the conversion *)

\* generate() was entered and has ended
GenerateEnded == pc = "done" \/ (pc = "raised" /\ error # "KeyError")

\* the track points of the returned document
Emitted == gpx[1].tracks[1].segments[1].points

C2_RelativeMode ==
    (pc = "done" /\ route[1].time = 0) =>
        \A i \in 1..Len(route) :
            route[i].time # CONST_UNDEFINED =>
                /\ Len(Emitted[i].time) = 1
                /\ Emitted[i].time[1].us = StartDate(tour.date) + route[i].time * 1000
                /\ Emitted[i].time[1].aware

\* a second point with t = 5000 came out 5 seconds after the start date
C2_Witness ==
    /\ pc = "done"
    /\ Len(route) = 2
    /\ route[1].time = 0
    /\ route[2].time = 5000
    /\ Emitted[2].time = <<[us |-> StartDate(tour.date) + 5000000, aware |-> TRUE]>>

\* how generate() would end on the same route had the payload date d
WithDate(d) == GenerateResult([tour EXCEPT !.date = d], route)

\* C3 as stated: with a nonzero first time every timestamp is time / 1000 s
\* since the epoch, and how generate() ends (the document, or the failure)
\* is the same whatever the date field holds.
C3_DateIndependent ==
    (GenerateEnded /\ Len(route) >= 1 /\ route[1].time \notin {0, CONST_UNDEFINED}) =>
        /\ \A d \in Dates : WithDate(d) = [pc |-> pc, error |-> error, gpx |-> gpx]
        /\ pc = "done" =>
              \A i \in 1..Len(route) :
                  route[i].time # CONST_UNDEFINED =>
                      Emitted[i].time = <<[us |-> route[i].time * 1000, aware |-> FALSE]>>

\* C3 (amended): with a nonzero first time, generate() returns a document
\* exactly when the date parses (it fails with ValueError otherwise); in the
\* document every timestamp is time / 1000 s since the epoch, a later time of
\* 0 included, and the document is the same for every date that parses.
C3_AbsoluteMode ==
    (GenerateEnded /\ Len(route) >= 1 /\ route[1].time # 0) =>
        /\ pc = "done" <=> DateParses(tour.date)
        /\ pc = "raised" => error = "ValueError" /\ gpx = <<>>
        /\ pc = "done" =>
              /\ \A i \in 1..Len(route) :
                    route[i].time # CONST_UNDEFINED =>
                        Emitted[i].time = <<[us |-> route[i].time * 1000, aware |-> FALSE]>>
              /\ \A d \in Dates : DateParses(d) => WithDate(d).gpx = gpx

\* a later point with time 0 came out as the epoch itself
C3_Witness ==
    /\ pc = "done"
    /\ Len(route) = 2
    /\ route[1].time = 5000
    /\ route[2].time = 0
    /\ Emitted[1].time = <<[us |-> 5000000, aware |-> FALSE]>>
    /\ Emitted[2].time = <<[us |-> 0, aware |-> FALSE]>>

\* C4: a payload with no coordinate entries ends in an error identified as a
\* malformed-input / empty-route error, and no document is returned.
C4_EmptyRouteError ==
    (pc \in {"done", "raised"} /\ Len(tour.items) = 0) =>
        /\ pc = "raised"
        /\ error \in {"MalformedInputError", "EmptyRouteError"}
        /\ gpx = <<>>

\* C5: a record missing lat or lng (or both) makes a Point without error,
\* which is empty and has neither altitude nor time.
C5_MissingKeyIsEmpty ==
    pc # "start" =>
        /\ error # "KeyError"
        /\ Len(route) = Len(tour.items)
        /\ \A i \in 1..Len(route) :
              ~HasPosition(tour.items[i]) =>
                  is_empty(route[i]) /\ has_only_coords(route[i])

\* C6: a record with both lat and lng, whatever their values, makes a Point
\* that is not empty.
C6_PositionedIsNotEmpty ==
    pc # "start" =>
        \A i \in 1..Len(route) :
            HasPosition(tour.items[i]) => ~is_empty(route[i])

\* C7 as stated: the document name ends with " (Completed)" if and only if
\* the type is "tour_recorded".
C7_SuffixIffRecorded ==
    pc = "done" =>
        (EndsWith(gpx[1].name, CompletedSuffix) <=> tour.type = "tour_recorded")

\* C7 (amended): for the recorded type the document name is the tour name
\* plus " (Completed)"; for any other type it is the tour name unchanged, so
\* it ends with " (Completed)" exactly when the tour's own name does.
C7_SuffixAdded ==
    pc = "done" =>
        /\ tour.type = "tour_recorded" =>
              /\ Len(gpx[1].name) = Len(tour.name) + Len(CompletedSuffix)
              /\ SubSeq(gpx[1].name, 1, Len(tour.name)) = tour.name
              /\ EndsWith(gpx[1].name, CompletedSuffix)
        /\ tour.type # "tour_recorded" =>
              /\ gpx[1].name = tour.name
              /\ EndsWith(gpx[1].name, CompletedSuffix)
                     <=> EndsWith(tour.name, CompletedSuffix)
        /\ gpx[1].tracks[1].name = gpx[1].name

\* a planned tour whose own name ends with the suffix kept its name
C7_Witness ==
    /\ pc = "done"
    /\ tour.type = "tour_planned"
    /\ EndsWith(tour.name, CompletedSuffix)
    /\ gpx[1].name = tour.name

\* C8: for a record with lat and lng the track point has an elevation iff
\* the record has an alt key and a time iff it has a t key, whatever the
\* values; latitude and longitude are always those of the record.
C8_PresenceFollowsKeys ==
    pc = "done" =>
        \A i \in 1..Len(tour.items) :
            HasPosition(tour.items[i]) =>
                /\ Emitted[i].latitude = tour.items[i]["lat"]
                /\ Emitted[i].longitude = tour.items[i]["lng"]
                /\ Emitted[i].elevation # <<>> <=> "alt" \in DOMAIN tour.items[i]
                /\ Emitted[i].time # <<>> <=> "t" \in DOMAIN tour.items[i]

IsDigit(c) == \E d \in 0..9 : c = Digit(d)

\* positions of token x in s
Places(s, x) == {i \in 1..Len(s) : s[i] = x}

\* s[from..to] is digits "." digit
IsOneDecimal(s, from, to) ==
    /\ to >= from + 2
    /\ s[to - 1] = "."
    /\ IsDigit(s[to])
    /\ \A i \in from..(to - 2) : IsDigit(s[i])

\* s[from..to] is H:MM:SS
IsHMS(s, from, to) ==
    /\ to >= from + 6
    /\ s[to - 2] = ":"
    /\ s[to - 5] = ":"
    /\ \A i \in (from..to) \ {to - 2, to - 5} : IsDigit(s[i])

\* C9: the description holds, in this order, the distance as km with exactly
\* one decimal digit, the duration as hours:minutes:seconds, elevation up and
\* elevation down.
C9_DescriptionFormat ==
    pc = "done" =>
        LET d == gpx[1].description
        IN  \E km \in Places(d, "km, "), hrs \in Places(d, "hrs, "),
               up \in Places(d, "m, "), dn \in Places(d, "Elevation down: ") :
                /\ d[1] = "Distance: "
                /\ IsOneDecimal(d, 2, km - 1)
                /\ d[km + 1] = "Estimated duration: "
                /\ IsHMS(d, km + 2, hrs - 1)
                /\ d[hrs + 1] = "Elevation up: "
                /\ up > hrs + 1
                /\ dn = up + 1
                /\ \A i \in (hrs + 2)..(up - 1) : IsDigit(d[i])


\* an entry of coordinates.items with neither lat nor lng
LacksBothKeys(json) == "lat" \notin DOMAIN json /\ "lng" \notin DOMAIN json

\* C12: for a payload with a start date that parses and at least one
\* coordinate entry, some of them with neither lat nor lng, construction and
\* generate() complete and return a document in which every such entry
\* stands at its own index as a point at the sentinel position, with no
\* elevation and no time.
C12_KeylessEntryRetained ==
    (/\ pc \in {"done", "raised"}
     /\ DateParses(tour.date)
     /\ \E i \in 1..Len(tour.items) : LacksBothKeys(tour.items[i])) =>
        /\ pc = "done"
        /\ Len(gpx) = 1
        /\ Len(Emitted) = Len(tour.items)
        /\ \A i \in 1..Len(tour.items) :
              LacksBothKeys(tour.items[i]) =>
                  /\ Emitted[i].latitude = CONST_UNDEFINED
                  /\ Emitted[i].longitude = CONST_UNDEFINED
                  /\ Emitted[i].elevation = <<>>
                  /\ Emitted[i].time = <<>>

----------------------------------------------------------------------------
(* KomootApi.fetch_tours (api.py) *)

\* tours as a page of the tours endpoint lists them; distance is a JSON
\* number, kept in tenths of a metre.  Tour 1 is listed with two distances:
\* a tour may be listed again, changed, on a later page.
TourA == [id |-> 1, distance |-> 150007]

TourB == [id |-> 2, distance |-> 9500]

TourC == [id |-> 3, distance |-> 421950]

TourAChanged == [id |-> 1, distance |-> 9500]

\* tour lists of one page
PageTours ==
    {<<>>, <<TourA>>, <<TourB>>, <<TourA, TourB>>, <<TourC, TourAChanged>>,
     <<TourB, TourC>>}

RECURSIVE SumLen(_)
SumLen(lists) == IF lists = <<>> THEN 0 ELSE Len(Head(lists)) + SumLen(Tail(lists))

\* _links of the last page of a chain: no "next", or a "next" without "href"
LastLinks == {EmptyDict, "next" :> EmptyDict}

\* the response bodies of a chain of pages: every page but the last links to
\* the one after it, and each reports the number of tours of the whole chain
Chain(lists, last) ==
    [i \in 1..Len(lists) |->
        [page   |-> [totalElements |-> SumLen(lists)],
         tours  |-> lists[i],
         _links |-> IF i < Len(lists) THEN "next" :> ("href" :> (i + 1)) ELSE last]]

Servers ==
    {Chain(lists, last) :
        lists \in SeqsUpTo(PageTours, MaxPages) \ {<<>>}, last \in LastLinks}

\* status codes of a response: success, forbidden, any other failure
StatusCodes == {200, 403, 500}

\* int(x) of a JSON number kept in tenths
IntOfTenths(x) == x \div 10

\* TourDetails(...) of one listed tour
TourDetails(t, user) ==
    [id |-> t.id, distance |-> IntOfTenths(t.distance), user_id |-> user]

\* results after the loop over the tours of one page
RECURSIVE AddTours(_, _, _)
AddTours(res, tours, user) ==
    IF tours = <<>> THEN res
    ELSE AddTours((Head(tours).id :> TourDetails(Head(tours), user)) @@ res,
                  Tail(tours), user)

\* HasNextPage with the link looked up in the response instead of its _links
HasNextPageTopLevel(response) ==
    "next" \in DOMAIN response /\ "href" \in DOMAIN response["next"]

\* has_next_page after a page
HasNextPage(response) ==
    "next" \in DOMAIN response._links /\ "href" \in DOMAIN response._links["next"]

\* what fetch_tours may be handed as queryfilter: nothing, a QueryFilter
\* (here one that filters by type), or, as main() does, a plain string
QueryFilters == {"None", "QueryFilter", "str"}

\* asdict(queryfilter) of the QueryFilter above
AsDict ==
    ("type" :> "tour_recorded") @@ ("sport_types" :> "None")
    @@ ("center" :> "None") @@ ("max_distance" :> "None")

CompilerIdle ==
    /\ tour = <<>>
    /\ pc = "idle"
    /\ route = <<>>
    /\ error = "none"
    /\ gpx = <<>>

FetchInit ==
    /\ server \in Servers
    /\ tour_user_id \in {"", "u2"}
    /\ queryfilter \in QueryFilters
    /\ params = EmptyDict
    /\ login_user = "u1"
    /\ fpc = "call"
    /\ current_uri = 0
    /\ has_next_page = FALSE
    /\ results = EmptyDict
    /\ status_code = 0
    /\ ferror = "none"
    /\ CompilerIdle
    /\ MainIdle

\* fetch_tours up to its loop: asdict() raises TypeError on anything that is
\* no dataclass instance
FetchCall ==
    /\ fpc = "call"
    /\ IF queryfilter = "str"
       THEN /\ fpc' = "raised"
            /\ ferror' = "TypeError"
            /\ UNCHANGED <<params, tour_user_id, results, has_next_page, current_uri>>
       ELSE /\ params' = (IF tour_user_id # "" THEN "status" :> "public" ELSE EmptyDict)
                         @@ (IF queryfilter = "None" THEN EmptyDict ELSE AsDict)
            /\ tour_user_id' = IF tour_user_id # "" THEN tour_user_id ELSE login_user
            /\ results' = EmptyDict
            /\ has_next_page' = TRUE
            /\ current_uri' = 1
            /\ fpc' = "loop"
            /\ ferror' = "none"
    /\ UNCHANGED <<server, queryfilter, login_user, status_code>>
    /\ UNCHANGED compilerVars
    /\ UNCHANGED mainVars

\* one pass of the loop: the request and what is done with its response, up
\* to the next request or to the return
FetchPage ==
    /\ fpc = "loop"
    /\ has_next_page
    /\ \E code \in StatusCodes :
        /\ status_code' = code
        /\ \/ /\ code = 200
              /\ LET response == server[current_uri]
                 IN  IF response.page.totalElements = 0
                     THEN /\ fpc' = "returned"
                          /\ UNCHANGED <<results, has_next_page, current_uri>>
                     ELSE /\ results' = AddTours(results, response.tours, tour_user_id)
                          /\ has_next_page' = HasNextPage(response)
                          /\ current_uri' = IF HasNextPage(response)
                                            THEN response._links["next"]["href"]
                                            ELSE current_uri
                          /\ fpc' = IF HasNextPage(response) THEN "loop" ELSE "returned"
              /\ ferror' = "none"
           \/ /\ code = 403
              \* the HTTPError is swallowed and the error body read as a page
              /\ fpc' = "raised"
              /\ ferror' \in {"KeyError", "JSONDecodeError"}
              /\ UNCHANGED <<results, has_next_page, current_uri>>
           \/ /\ code \notin {200, 403}
              /\ fpc' = "raised"
              /\ ferror' = "HTTPError"
              /\ UNCHANGED <<results, has_next_page, current_uri>>
    /\ UNCHANGED <<server, tour_user_id, queryfilter, params, login_user>>
    /\ UNCHANGED compilerVars
    /\ UNCHANGED mainVars

FetchNext == FetchCall \/ FetchPage

\* every request is answered: a pass of the loop that can run does run
FetchSpec == FetchInit /\ [][FetchNext]_vars /\ WF_vars(FetchNext)

----------------------------------------------------------------------------
(* Claims about fetch_tours *)

\* the tours listed on the pages of the chain
Listed == UNION {{<<i, j>> : j \in 1..Len(server[i].tours)} : i \in 1..Len(server)}

\* the last listing of a tour id, in page order
LastListing(id) ==
    CHOOSE ij \in Listed :
        /\ server[ij[1]].tours[ij[2]].id = id
        /\ \A kl \in Listed :
              server[kl[1]].tours[kl[2]].id = id =>
                  (kl[1] < ij[1] \/ (kl[1] = ij[1] /\ kl[2] <= ij[2]))

\* the dictionary has one TourDetails under the id of every listed tour
ResultsComplete ==
    /\ DOMAIN results = {server[ij[1]].tours[ij[2]].id : ij \in Listed}
    /\ \A id \in DOMAIN results :
          LET ij == LastListing(id)
              t  == server[ij[1]].tours[ij[2]]
          IN  /\ results[id].id = id
              /\ results[id].distance = t.distance \div 10
              /\ results[id].user_id = tour_user_id
    /\ tour_user_id \in {"u1", "u2"}
    /\ server[1].page.totalElements = 0 => results = EmptyDict
    /\ server[1].page.totalElements # 0 => current_uri = Len(server)

\* C10: fetch_tours follows the next links to the page without one and then
\* ends; when it returns, the dictionary holds one TourDetails under the id of
\* every tour listed on every page (none when totalElements is 0); it ends
\* without returning only on a response that is not a success, or on a
\* queryfilter that is no QueryFilter.
C10_FetchesAllPages ==
    /\ <>(fpc \in {"returned", "raised"})
    /\ [](fpc = "returned" => ResultsComplete)
    /\ [](fpc = "raised" =>
            \/ status_code \in {403, 500}
            \/ ferror = "TypeError" /\ queryfilter = "str")

\* a chain of three pages was followed to its end
C10_Witness ==
    /\ fpc = "returned"
    /\ Len(server) = 3
    /\ current_uri = 3
    /\ Len(server[3].tours) > 0
    /\ \A i \in 1..2 : \A j \in 1..Len(server[i].tours) :
          server[i].tours[j].id # server[3].tours[1].id
    /\ server[3].tours[1].id \in DOMAIN results

----------------------------------------------------------------------------
(* main (komoot-gpx.py) *)

\* the option names getopt accepts: the letters of "hlo:d:m:p:f:u:" and the
\* listed long names
ShortOpts == {"-h", "-l", "-o", "-d", "-m", "-p", "-f", "-u"}

LongOpts == {"--list-tours", "--make-gpx", "--mail", "--pass", "--user",
             "--filter", "--output", "--make-all"}

\* options of the command lines tried, with their argument ("" when none);
\* mail and password come from -m / -p or from the prompts
Options ==
    {<<"-a", "">>, <<"--make-all", "">>, <<"-l", "">>, <<"-h", "">>,
     <<"-f", "recorded">>, <<"-d", "1">>, <<"-u", "u2">>}

Argvs == UNION {[1..n -> Options] : n \in 0..MaxArgs}

\* getopt.getopt raises GetoptError on an option that is not declared
GetoptError(args) == \E i \in 1..Len(args) : args[i][1] \notin ShortOpts \cup LongOpts

\* opt in "--filter": a substring test; of the names getopt returns, "-f" and
\* "--filter" pass it
InFilter(opt) == opt \in {"-f", "--filter"}

\* the loop over opts assigns a variable at every option that sets it, so
\* the last such option decides: its index in args, 0 when there is none
LastOption(args, names) ==
    LET set == {i \in 1..Len(args) : args[i][1] \in names}
    IN  IF set = {} THEN 0 ELSE CHOOSE i \in set : \A j \in set : j <= i

\* the tours the account lists; main reads them through fetch_tours
MainServers ==
    {Chain(<<<<>>>>, EmptyDict), Chain(<<<<TourA, TourB>>, <<TourC>>>>, EmptyDict)}

\* int(tour_selection) of the selections tried
IntOfSelection(sel) == CASE sel = "1" -> 1 [] sel = "2" -> 2 [] sel = "7" -> 7

\* what the prompt for a tour id may be answered
PromptAnswers == {"1", "7"}

MainInit ==
    /\ argv \in Argvs
    /\ credentials \in {"valid", "invalid"}
    /\ mpc = "start"
    /\ typeFilter = "all"
    /\ tour_selection = ""
    /\ print_tours = FALSE
    /\ user_id = ""
    /\ exit_code = -1
    /\ merror = "none"
    /\ log = <<>>
    /\ written = <<>>
    /\ server \in MainServers
    /\ tour_user_id = ""
    /\ queryfilter = "None"
    /\ params = EmptyDict
    /\ login_user = ""
    /\ fpc = "idle"
    /\ current_uri = 0
    /\ has_next_page = FALSE
    /\ results = EmptyDict
    /\ status_code = 0
    /\ ferror = "none"
    /\ CompilerIdle

\* main up to the login: getopt, then the loop over the options
MainParse ==
    /\ mpc = "start"
    /\ IF GetoptError(argv)
       THEN \* usage(); sys.exit(2)
            /\ mpc' = "exited"
            /\ exit_code' = 2
            /\ UNCHANGED <<typeFilter, tour_selection, print_tours, user_id>>
       ELSE IF \E i \in 1..Len(argv) : argv[i][1] = "-h"
       THEN \* usage(); sys.exit()
            /\ mpc' = "exited"
            /\ exit_code' = 0
            /\ UNCHANGED <<typeFilter, tour_selection, print_tours, user_id>>
       ELSE /\ mpc' = "login"
            /\ typeFilter' =
                  LET i == LastOption(argv, {o \in ShortOpts \cup LongOpts : InFilter(o)})
                  IN  IF i = 0 THEN typeFilter ELSE "tour_" \o argv[i][2]
            /\ tour_selection' =
                  LET i == LastOption(argv, {"-d", "--make-gpx", "-a", "--make-all"})
                  IN  IF i = 0 THEN tour_selection
                      ELSE IF argv[i][1] \in {"-a", "--make-all"} THEN "all"
                      ELSE argv[i][2]
            /\ print_tours' = \E i \in 1..Len(argv) : argv[i][1] \in {"-l", "--list-tours"}
            /\ user_id' =
                  LET i == LastOption(argv, {"-u", "--user"})
                  IN  IF i = 0 THEN user_id ELSE argv[i][2]
            /\ UNCHANGED exit_code
    /\ UNCHANGED <<argv, credentials, merror, log, written>>
    /\ UNCHANGED fetchVars
    /\ UNCHANGED compilerVars

\* api.login(mail, pwd): an HTTPError other than 403 is raised; on 403 the
\* error body is read for "username"
MainLogin ==
    /\ mpc = "login"
    /\ log' = Append(log, "login")
    /\ IF credentials = "valid"
       THEN /\ status_code' = 200
            /\ login_user' = "u1"
            /\ mpc' = "logged_in"
            /\ merror' = "none"
       ELSE /\ status_code' \in {401, 403}
            /\ login_user' = login_user
            /\ mpc' = "crashed"
            /\ merror' = IF status_code' = 403 THEN "KeyError" ELSE "HTTPError"
    /\ exit_code' = IF credentials = "valid" THEN exit_code ELSE 1
    /\ UNCHANGED <<argv, credentials, typeFilter, tour_selection, print_tours,
                   user_id, written>>
    /\ UNCHANGED <<server, tour_user_id, queryfilter, params, fpc, current_uri,
                   has_next_page, results, ferror>>
    /\ UNCHANGED compilerVars

\* api.fetch_tours(user_id, typeFilter) is entered: typeFilter, a str, is
\* what it gets as queryfilter
MainFetchTours ==
    /\ mpc = "logged_in"
    /\ log' = Append(log, "fetch_tours")
    /\ tour_user_id' = user_id
    /\ queryfilter' = "str"
    /\ fpc' = "call"
    /\ mpc' = "fetch_tours"
    /\ UNCHANGED <<argv, credentials, typeFilter, tour_selection, print_tours,
                   user_id, exit_code, merror, written>>
    /\ UNCHANGED <<server, params, login_user, current_uri, has_next_page, results,
                   status_code, ferror>>
    /\ UNCHANGED compilerVars

\* the tour ids of results, in the order of the dictionary
RECURSIVE IdsInOrder(_)
IdsInOrder(ids) ==
    IF ids = {} THEN <<>>
    ELSE LET least == CHOOSE i \in ids : \A j \in ids : i <= j
         IN  <<least>> \o IdsInOrder(ids \ {least})

\* main from the end of fetch_tours on.  An exception of fetch_tours leaves
\* main (only KeyboardInterrupt is caught) and ends the process.  After a
\* return: print_tours, the exits for -l and for an unknown tour id, and the
\* downloads; fetch_tour(tour_id) concatenates a str and the int key of
\* results.
MainAfterFetch ==
    /\ mpc = "fetch_tours"
    /\ fpc \in {"raised", "returned"}
    /\ IF fpc = "raised"
       THEN /\ mpc' = "crashed"
            /\ merror' = ferror
            /\ exit_code' = 1
            /\ UNCHANGED <<tour_selection, log, written>>
       ELSE IF print_tours
       THEN /\ mpc' = "exited"
            /\ exit_code' = 0
            /\ UNCHANGED <<tour_selection, merror, log, written>>
       ELSE /\ tour_selection' \in
                  IF tour_selection = "" THEN PromptAnswers ELSE {tour_selection}
            /\ IF tour_selection' = "all"
               THEN IF results = EmptyDict
                    THEN /\ mpc' = "exited"
                         /\ exit_code' = 0
                         /\ merror' = "none"
                         /\ UNCHANGED <<log, written>>
                    ELSE /\ mpc' = "crashed"
                         /\ merror' = "TypeError"
                         /\ exit_code' = 1
                         /\ log' = Append(log, "fetch_tour")
                         /\ UNCHANGED written
               ELSE IF IntOfSelection(tour_selection') \notin DOMAIN results
               THEN /\ mpc' = "exited"
                    /\ exit_code' = 0
                    /\ merror' = "none"
                    /\ UNCHANGED <<log, written>>
               ELSE /\ mpc' = "exited"
                    /\ exit_code' = 0
                    /\ merror' = "none"
                    /\ log' = Append(log, "fetch_tour")
                    /\ written' = Append(written, IntOfSelection(tour_selection'))
    /\ UNCHANGED <<argv, credentials, typeFilter, print_tours, user_id>>
    /\ UNCHANGED fetchVars
    /\ UNCHANGED compilerVars

\* the loop of fetch_tours is left out: with a str as queryfilter the call
\* ends in FetchCall
MainNext == MainParse \/ MainLogin \/ MainFetchTours \/ FetchCall \/ MainAfterFetch

MainSpec == MainInit /\ [][MainNext]_vars

----------------------------------------------------------------------------
(* Claims about main *)

\* the command line asks for all tours: -a or --make-all, and beside it at
\* most the user whose tours are meant
MakeAllGiven ==
    /\ \E i \in 1..Len(argv) : argv[i][1] \in {"-a", "--make-all"}
    /\ \A i \in 1..Len(argv) : argv[i][1] \in {"-a", "--make-all", "-u"}

\* C11: run with valid credentials and -a / --make-all and no filter, the
\* program logs in, fetches the list of all tours, then fetches every tour of
\* the list and writes one GPX file for it, and exits normally.
C11_MakeAllDownloadsAll ==
    (mpc \in {"exited", "crashed"} /\ credentials = "valid" /\ MakeAllGiven) =>
        /\ mpc = "exited"
        /\ exit_code = 0
        /\ Len(log) >= 2
        /\ log[1] = "login"
        /\ log[2] = "fetch_tours"
        /\ fpc = "returned"
        /\ written = IdsInOrder(DOMAIN results)

====
